---- MODULE Spec2Model ----
(***************************************************************************)
(* Model of the two stateful pieces of the portfolio site:                 *)
(*   - ThemeProvider / toggleTheme (src/components/Hero.tsx, the provider  *)
(*     listing at lines 120-176): theme state, the localStorage slot       *)
(*     "theme" and the "dark" class of the document root;                  *)
(*   - DevLabsPage (src/app/devlabs/page.tsx): the post listing sorted by  *)
(*     publishedAt with Array.prototype.sort and the inline comparator.    *)
(***************************************************************************)
EXTENDS Integers, Sequences, FiniteSets, TLC

VARIABLES
    \* ---- environment of the theme provider
    storage,        \* localStorage: a function from keys to strings
    storageAvail,   \* FALSE: touching localStorage raises (SecurityError)
    mediaAvail,     \* FALSE: window.matchMedia is not a function
    systemDark,     \* matchMedia('(prefers-color-scheme: dark)').matches
    classList,      \* document.documentElement.classList
    \* ---- ThemeProvider
    theme,          \* the useState value
    phase,          \* "rendered" (effect pending) | "mounted" | "error"
    \* ---- history of the current page load (observation only)
    storageAtLoad,  \* storage when the page was loaded
    initStored,     \* what getItem('theme') returned in the effect
    themes,         \* theme after the effect and after every toggle
    writes,         \* values passed to localStorage.setItem('theme', _)
    toggledBefore,  \* some toggle happened before the last reload
    prevLoadTheme,  \* theme at the moment of the last reload, <<>> if none
    nToggles,       \* toggles so far (all loads)
    nReloads,       \* reloads so far
    \* ---- DevLabsPage
    posts,          \* the content collection behind getBlogPosts()
    allBlogs,       \* the local array of DevLabsPage
    listing,        \* the rendered entries, in order
    cmpCalls,       \* the comparator calls made by the sort: <<a, b, result>>
    pagePc          \* "idle" | "loaded" | "rendered"

themeVars == <<storage, storageAvail, mediaAvail, systemDark, classList, theme,
               phase, storageAtLoad, initStored, themes, writes, toggledBefore,
               prevLoadTheme, nToggles, nReloads>>
pageVars == <<posts, allBlogs, listing, cmpCalls, pagePc>>
vars == <<themeVars, pageVars>>

\* ---- bounds of the model
MaxToggles == 3
MaxReloads == 2
MaxPosts == 4

(***************************************************************************)
(* localStorage and the document root                                      *)
(***************************************************************************)
ThemeKey == "theme"

\* Slot contents the provider can meet: what it writes itself, plus strings
\* left there by anything else running on the origin.
StoredStrings == {"light", "dark", "blue", ""}

EmptyStorage == [k \in {} |-> ""]

\* Storage.getItem: <<>> stands for null, <<v>> for the string v.
getItem(store, key) == IF key \in DOMAIN store THEN <<store[key]>> ELSE <<>>

\* Storage.setItem
setItem(store, key, value) ==
    [k \in DOMAIN store \cup {key} |-> IF k = key THEN value ELSE store[k]]

\* JavaScript truthiness of a `string | null`: null and "" are falsy.
Truthy(opt) == opt # <<>> /\ opt[1] # ""

classListAdd(cl, token) == cl \cup {token}
classListRemove(cl, token) == cl \ {token}

(***************************************************************************)
(* ThemeProvider: the mount effect                                         *)
(***************************************************************************)
InitialTheme_SystemFirst(stored, sysDark, current) ==
    IF sysDark THEN "dark"
    ELSE IF Truthy(stored) THEN stored[1]
    ELSE current

\* The theme the effect leaves in state: setTheme(storedTheme), else
\* setTheme('dark') under a dark system preference, else the useState value.
InitialTheme(stored, sysDark, current) ==
    IF Truthy(stored) THEN stored[1]
    ELSE IF sysDark THEN "dark"
    ELSE current

\* The class list the effect leaves: 'dark' is added, never removed.
InitialClassList(cl, stored, sysDark) ==
    IF Truthy(stored)
    THEN IF stored[1] = "dark" THEN classListAdd(cl, "dark") ELSE cl
    ELSE IF sysDark THEN classListAdd(cl, "dark") ELSE cl

StorageAfterEffect_Persist(store, resolved) == setItem(store, ThemeKey, resolved)

\* The effect calls getItem only: the slot is left as it was.
StorageAfterEffect(store, resolved) == store

\* The effect raises when localStorage cannot be touched, or when it gets to
\* window.matchMedia and that is missing; nothing in it catches.
EffectThrows(stored) ==
    \/ ~storageAvail
    \/ ~Truthy(stored) /\ ~mediaAvail

MountEffect ==
    /\ phase = "rendered"
    /\ LET stored == IF storageAvail THEN getItem(storage, ThemeKey) ELSE <<>>
           resolved == InitialTheme(stored, systemDark, theme)
       IN  IF EffectThrows(stored)
           THEN /\ phase' = "error"
                /\ UNCHANGED <<storage, classList, theme, initStored, themes>>
           ELSE /\ phase' = "mounted"
                /\ theme' = resolved
                /\ classList' = InitialClassList(classList, stored, systemDark)
                /\ storage' = StorageAfterEffect(storage, resolved)
                /\ initStored' = stored
                /\ themes' = <<resolved>>
    /\ UNCHANGED <<storageAvail, mediaAvail, systemDark, storageAtLoad, writes,
                   toggledBefore, prevLoadTheme, nToggles, nReloads, pageVars>>

(***************************************************************************)
(* toggleTheme                                                             *)
(***************************************************************************)
NewTheme(prevTheme) == IF prevTheme = "light" THEN "dark" ELSE "light"

PersistedValue_Prev(prevTheme) == prevTheme

\* The value handed to localStorage.setItem('theme', _).
PersistedValue(prevTheme) == NewTheme(prevTheme)

StorageAfterToggle_NoWrite(store, prevTheme) == store

StorageAfterToggle(store, prevTheme) ==
    setItem(store, ThemeKey, PersistedValue(prevTheme))

ClassListAfterToggle_NoRemove(cl, newTheme) ==
    IF newTheme = "dark" THEN classListAdd(cl, "dark") ELSE cl

ClassListAfterToggle(cl, newTheme) ==
    IF newTheme = "dark" THEN classListAdd(cl, "dark")
    ELSE classListRemove(cl, "dark")

\* The updater runs once per call. localStorage is reachable here: the
\* provider only gets to "mounted" when the effect could read it.
ToggleTheme ==
    /\ phase = "mounted"
    /\ nToggles < MaxToggles
    /\ LET newTheme == NewTheme(theme)
       IN  /\ theme' = newTheme
           /\ storage' = StorageAfterToggle(storage, theme)
           /\ classList' = ClassListAfterToggle(classList, newTheme)
           /\ themes' = Append(themes, newTheme)
           /\ writes' = Append(writes, PersistedValue(theme))
    /\ nToggles' = nToggles + 1
    /\ UNCHANGED <<storageAvail, mediaAvail, systemDark, phase, storageAtLoad,
                   initStored, toggledBefore, prevLoadTheme, nReloads,
                   pageVars>>

(***************************************************************************)
(* A new session: the page is loaded again.  The document is new (no class *)
(* on <html>), the provider starts from useState('light'), localStorage    *)
(* is the same, the system preference may have changed.                    *)
(***************************************************************************)
Reload ==
    /\ phase \in {"mounted", "error"}
    /\ nReloads < MaxReloads
    /\ phase' = "rendered"
    /\ theme' = "light"
    /\ classList' = {}
    /\ systemDark' \in BOOLEAN
    /\ storageAtLoad' = storage
    /\ initStored' = <<>>
    /\ themes' = <<>>
    /\ writes' = <<>>
    /\ prevLoadTheme' = IF phase = "mounted" THEN <<theme>> ELSE <<>>
    /\ toggledBefore' = (nToggles > 0)
    /\ nReloads' = nReloads + 1
    /\ UNCHANGED <<storage, storageAvail, mediaAvail, nToggles, pageVars>>

(***************************************************************************)
(* DevLabsPage: the listing                                                *)
(***************************************************************************)
\* The publish dates of the content files, as <<year, month, day>>.
PostDates == {<<2023, 12, 31>>, <<2024, 1, 1>>, <<2024, 6, 1>>, <<2024, 12, 24>>}

\* new Date("YYYY-MM-DD").valueOf(), counted in days from 1970-01-01 UTC
\* (proleptic Gregorian calendar).  The engine's value is this number times
\* 86 400 000 ms, beyond the 32-bit integers of TLC; the comparator
\* only compares two such values, and the scaling keeps their order.
DateValue(d) ==
    LET y == IF d[2] <= 2 THEN d[1] - 1 ELSE d[1]
        era == y \div 400
        yoe == y - era * 400
        mp == (d[2] + 9) % 12
        doy == (153 * mp + 2) \div 5 + d[3] - 1
        doe == yoe * 365 + yoe \div 4 - yoe \div 100 + doy
    IN  era * 146097 + doe - 719468

Compare_Subtract(a, b) ==
    IF DateValue(a.publishedAt) > DateValue(b.publishedAt) THEN -1
    ELSE IF DateValue(a.publishedAt) < DateValue(b.publishedAt) THEN 1
    ELSE 0

Compare_Ascending(a, b) ==
    IF DateValue(a.publishedAt) < DateValue(b.publishedAt) THEN -1 ELSE 1

\* The comparator handed to sort.
Compare(a, b) ==
    IF DateValue(a.publishedAt) > DateValue(b.publishedAt) THEN -1 ELSE 1

\* One comparator call of the sort, logged.
Call(a, b) == <<a.slug, b.slug, Compare(a, b)>>

\* Array.prototype.sort as the engine runs it on an array of fewer than 64
\* elements: the leading run is found (and reversed when descending), the
\* rest is inserted by binary search.  A sort state is [arr, calls]; indices
\* are those of the engine (from 0), arr[i + 1] is its element i.
ReverseRange(arr, from, to) ==
    [i \in 1..Len(arr) |->
        IF from < i /\ i <= to THEN arr[from + to + 1 - i] ELSE arr[i]]

RECURSIVE RunScan(_, _, _, _, _)
RunScan(arr, idx, isDescending, runLength, calls) ==
    IF idx >= Len(arr) THEN [runLength |-> runLength, calls |-> calls]
    ELSE LET order == Compare(arr[idx + 1], arr[idx])
             logged == Append(calls, Call(arr[idx + 1], arr[idx]))
             stop == IF isDescending THEN order >= 0 ELSE order < 0
         IN  IF stop THEN [runLength |-> runLength, calls |-> logged]
             ELSE RunScan(arr, idx + 1, isDescending, runLength + 1, logged)

CountAndMakeRun(arr) ==
    IF Len(arr) = 1 THEN [arr |-> arr, runLength |-> 1, calls |-> <<>>]
    ELSE LET isDescending == Compare(arr[2], arr[1]) < 0
             scan == RunScan(arr, 2, isDescending, 2, <<Call(arr[2], arr[1])>>)
         IN  [arr |-> IF isDescending THEN ReverseRange(arr, 0, scan.runLength)
                      ELSE arr,
              runLength |-> scan.runLength,
              calls |-> scan.calls]

RECURSIVE BinarySearch(_, _, _, _, _)
BinarySearch(arr, pivot, left, right, calls) ==
    IF left >= right THEN [left |-> left, calls |-> calls]
    ELSE LET mid == left + (right - left) \div 2
             order == Compare(pivot, arr[mid + 1])
             logged == Append(calls, Call(pivot, arr[mid + 1]))
         IN  IF order < 0 THEN BinarySearch(arr, pivot, left, mid, logged)
             ELSE BinarySearch(arr, pivot, mid + 1, right, logged)

\* arr with its element `start` moved to position `left` (left <= start).
InsertAt(arr, start, left) ==
    [i \in 1..Len(arr) |->
        IF i = left + 1 THEN arr[start + 1]
        ELSE IF left + 1 < i /\ i <= start + 1 THEN arr[i - 1]
        ELSE arr[i]]

RECURSIVE BinaryInsertionSort(_, _, _)
BinaryInsertionSort(arr, start, calls) ==
    IF start >= Len(arr) THEN [arr |-> arr, calls |-> calls]
    ELSE LET found == BinarySearch(arr, arr[start + 1], 0, start, calls)
         IN  BinaryInsertionSort(InsertAt(arr, start, found.left), start + 1,
                                 found.calls)

Sort(arr) ==
    IF Len(arr) < 2 THEN [arr |-> arr, calls |-> <<>>]
    ELSE LET run == CountAndMakeRun(arr)
         IN  BinaryInsertionSort(run.arr, run.runLength, run.calls)

\* What .map renders of one post: the key/link and the <time> text.
RenderPost(post) == [key |-> post.slug, time |-> post.publishedAt]

\* The content collection: posts 1..n with unique slugs, any dates.
PostCollections ==
    UNION {[1..n -> PostDates] : n \in 0..MaxPosts}

\* let allBlogs = getBlogPosts()
GetBlogPosts ==
    /\ pagePc = "idle"
    /\ \E dates \in PostCollections :
          posts' = [i \in 1..Len(dates) |-> [slug |-> i, publishedAt |-> dates[i]]]
    /\ allBlogs' = posts'
    /\ pagePc' = "loaded"
    /\ UNCHANGED <<listing, cmpCalls, themeVars>>

\* allBlogs.sort(...).map(...): sort works in place and returns the array.
SortAndMap ==
    /\ pagePc = "loaded"
    /\ LET sorted == Sort(allBlogs)
       IN  /\ allBlogs' = sorted.arr
           /\ cmpCalls' = sorted.calls
           /\ listing' = [i \in 1..Len(sorted.arr) |-> RenderPost(sorted.arr[i])]
    /\ pagePc' = "rendered"
    /\ UNCHANGED <<posts, themeVars>>

ThemeInit ==
    /\ storageAvail \in BOOLEAN
    /\ mediaAvail \in BOOLEAN
    /\ systemDark \in BOOLEAN
    /\ storage \in {EmptyStorage} \cup
                   {setItem(EmptyStorage, ThemeKey, v) : v \in StoredStrings}
    /\ (~storageAvail => storage = EmptyStorage)
    /\ classList = {}
    /\ theme = "light"
    /\ phase = "rendered"
    /\ storageAtLoad = storage
    /\ initStored = <<>>
    /\ themes = <<>>
    /\ writes = <<>>
    /\ toggledBefore = FALSE
    /\ prevLoadTheme = <<>>
    /\ nToggles = 0
    /\ nReloads = 0

PageIdle ==
    /\ posts = <<>>
    /\ allBlogs = <<>>
    /\ listing = <<>>
    /\ cmpCalls = <<>>
    /\ pagePc = "idle"

Init == ThemeInit /\ PageIdle

Next == MountEffect \/ ToggleTheme \/ Reload

Spec == Init /\ [][Next]_vars

\* The page alone, with the provider not yet started.
ThemeIdle ==
    /\ storageAvail = TRUE
    /\ mediaAvail = TRUE
    /\ systemDark = FALSE
    /\ storage = EmptyStorage
    /\ classList = {}
    /\ theme = "light"
    /\ phase = "rendered"
    /\ storageAtLoad = EmptyStorage
    /\ initStored = <<>>
    /\ themes = <<>>
    /\ writes = <<>>
    /\ toggledBefore = FALSE
    /\ prevLoadTheme = <<>>
    /\ nToggles = 0
    /\ nReloads = 0

PageInit == ThemeIdle /\ PageIdle

PageNext == GetBlogPosts \/ SortAndMap

PageSpec == PageInit /\ [][PageNext]_vars

(***************************************************************************)
(* Properties                                                              *)
(***************************************************************************)
Themes == {"light", "dark"}

\* d1 is a strictly later calendar day than d2 (year, then month, then day).
Later(d1, d2) ==
    \/ d1[1] > d2[1]
    \/ d1[1] = d2[1] /\ d1[2] > d2[2]
    \/ d1[1] = d2[1] /\ d1[2] = d2[2] /\ d1[3] > d2[3]

\* C1 as stated: once the effect has run, the theme is the stored value
\* whenever a value is stored (whatever the system preference), else dark
\* under a dark system preference, else light.
C1_StoredValueAlwaysWins ==
    phase = "mounted" =>
        themes[1] = IF initStored # <<>> THEN initStored[1]
                    ELSE IF systemDark THEN "dark" ELSE "light"

\* C1 amended: the stored value wins when it is a non-empty string; with
\* no stored value or the empty string the theme is dark under a dark system
\* preference and light otherwise.
C1_InitialResolution ==
    phase = "mounted" =>
        themes[1] = IF initStored # <<>> /\ initStored[1] # "" THEN initStored[1]
                    ELSE IF systemDark THEN "dark" ELSE "light"

C1_Witness ==
    /\ phase = "mounted"
    /\ initStored = <<"light">>
    /\ systemDark
    /\ themes = <<"light">>

\* C2: two toggles bring the theme back to what it was before the first,
\* and every toggle of the page load made exactly one write to the slot.
C2_ToggleTwiceIsIdentity ==
    /\ \A i \in 1..Len(themes) :
          i + 2 <= Len(themes) => themes[i + 2] = themes[i]
    /\ phase = "mounted" => Len(writes) = Len(themes) - 1

\* C3: initialization never ends in an error, also when localStorage or
\* matchMedia cannot be used.
C3_InitNeverFails == phase # "error"

\* C4: the listing is a permutation of the posts with publishedAt
\* non-increasing from first to last; no posts give an empty listing.
C4_SortedPermutation ==
    pagePc = "rendered" =>
        /\ Len(listing) = Len(posts)
        /\ \A i \in 1..Len(posts) :
              Cardinality({j \in 1..Len(listing) :
                              listing[j] = RenderPost(posts[i])}) = 1
        /\ \A i, j \in 1..Len(listing) :
              i < j => ~Later(listing[j].time, listing[i].time)

C4_Witness ==
    /\ pagePc = "rendered"
    /\ Len(listing) = MaxPosts
    /\ listing[1].key = MaxPosts
    /\ \E i \in 1..(MaxPosts - 1) : listing[i].time = listing[i + 1].time
    /\ Later(listing[1].time, listing[MaxPosts].time)

\* C5: after a toggle, the slot holds the current theme, which is the value
\* of the last write and the result of the last toggle.
C5_StoredIsCurrent ==
    Len(themes) >= 2 =>
        /\ getItem(storage, ThemeKey) = <<theme>>
        /\ writes[Len(writes)] = theme
        /\ themes[Len(themes)] = theme

C5_Witness ==
    /\ Len(themes) >= 3
    /\ theme = "dark"
    /\ storageAtLoad = EmptyStorage
    /\ getItem(storage, ThemeKey) = <<"dark">>

\* C6: once the provider is initialized, the document root carries the
\* "dark" class exactly when the theme is dark.
C6_MarkerIffDark ==
    phase = "mounted" => ("dark" \in classList <=> theme = "dark")

C6_Witness ==
    /\ phase = "mounted"
    /\ Len(themes) >= 2
    /\ themes[1] = "dark"
    /\ theme = "light"
    /\ "dark" \notin classList

\* C7: after at least one toggle, a reload resolves to the theme that was
\* current before the reload, whatever the system preference is then.
C7_SurvivesReload ==
    (phase = "mounted" /\ toggledBefore /\ prevLoadTheme # <<>>) =>
        themes[1] = prevLoadTheme[1]

C7_Witness ==
    /\ phase = "mounted"
    /\ toggledBefore
    /\ prevLoadTheme = <<"light">>
    /\ systemDark
    /\ themes = <<"light">>

\* C8: the theme is always light or dark, and so is every value written to
\* the slot.
C8_ThemeIsLightOrDark ==
    /\ theme \in Themes
    /\ \A i \in 1..Len(writes) : writes[i] \in Themes

\* C9: as long as no toggle has written, the slot is what it was when the
\* page was loaded: the effect does not write it.
C9_InitDoesNotWrite ==
    writes = <<>> => storage = storageAtLoad

C9_Witness ==
    /\ phase = "mounted"
    /\ systemDark
    /\ themes = <<"dark">>
    /\ storage = EmptyStorage

\* C10: the comparator answers -1 exactly when its first post is strictly
\* later than its second and 1 otherwise, never 0: in the calls the sort
\* made and on every pair of posts, so 1 both ways on equal dates.
C10_ComparatorNeverZero ==
    /\ \A k \in 1..Len(cmpCalls) :
          cmpCalls[k][3] =
              IF Later(posts[cmpCalls[k][1]].publishedAt,
                       posts[cmpCalls[k][2]].publishedAt) THEN -1 ELSE 1
    /\ \A i, j \in 1..Len(posts) :
          /\ Compare(posts[i], posts[j]) \in {-1, 1}
          /\ Compare(posts[i], posts[j]) = -1
                <=> Later(posts[i].publishedAt, posts[j].publishedAt)
          /\ posts[i].publishedAt = posts[j].publishedAt
                => Compare(posts[i], posts[j]) = 1 /\ Compare(posts[j], posts[i]) = 1

C10_Witness ==
    /\ pagePc = "rendered"
    /\ \E k \in 1..Len(cmpCalls) :
          /\ posts[cmpCalls[k][1]].publishedAt = posts[cmpCalls[k][2]].publishedAt
          /\ cmpCalls[k][3] = 1
    /\ \E k \in 1..Len(cmpCalls) : cmpCalls[k][3] = -1

====
